---- MODULE Spec2Model ----
(***************************************************************************)
(* The null sink node of src/null/null-sink.c, with struct null_state of   *)
(* src/null/null.h as the state.  The control operations (set_param,       *)
(* send_command, set_io, add_listener) are one action each.  process() is  *)
(* translated once, as the step relation ProcessStep over its program      *)
(* points; specification Spec runs a whole call as one action (calls are   *)
(* serialised), specification SpecRT runs it one step at a time on the     *)
(* real-time context while the control context runs its operations, and    *)
(* specification SpecPause runs the commands against a call in flight.     *)
(***************************************************************************)
EXTENDS Integers, Sequences, FiniteSets, TLC

(* ---------------------------------------------------------------- bounds *)

\* process() calls that count a buffer before the host stops queueing
MaxBufferCount == 1
\* listeners that may be registered
MaxListeners == 1
\* listeners that may be registered where the order of delivery is observed
MaxSubscribers == 3
\* counting calls the counters may be short of wrapping where they start
MaxWrapCalls == 2
\* the largest index the host passes to the factory enumeration
MaxFactoryIndex == 5

(* ------------------------------------------------------ program constants *)

MAX_BUFFERS == 16
\* 0xffffffff in the headers; here the largest identifier of the model,
\* which keeps it above every other identifier as in the source
SPA_ID_INVALID == 2147483647
SPA_STATUS_OK == 0
EINVAL == 22
EIO == 5
ENOTSUP == 95
ENOENT == 2
EPROTO == 71
\* sizeof(float), the divisor of the frame computation
SIZEOF_FLOAT == 4
\* sizeof(struct spa_io_buffers), sizeof(struct spa_io_rate_match)
SIZEOF_IO_BUFFERS == 8
SIZEOF_IO_RATE_MATCH == 48
MAX_CHANNELS == 64
MAX_RATE == 192000

NULL == "NULL"
\* set_param's param == NULL
NULL_POD == [null |-> TRUE]

\* spa_zero(state->current_format)
ZeroFormat ==
    [media_type |-> "none", media_subtype |-> "none", format |-> "none",
     channels |-> 0, rate |-> 0]

(* The format descriptors (pods) the host passes to set_param.  parse_res  *)
(* and raw_parse_res are what spa_format_parse and                         *)
(* spa_format_audio_raw_parse return for the pod.                          *)
Desc(mt, ms, fmt, ch, rate) ==
    [parse_res |-> 0, raw_parse_res |-> 0, media_type |-> mt,
     media_subtype |-> ms, format |-> fmt, channels |-> ch, rate |-> rate]

WellFormed ==
    {Desc("audio", "raw", "F32", 2, 48000),
     Desc("audio", "raw", "S16", 2, 48000),
     Desc("audio", "raw", "F32", 1, 1),
     Desc("audio", "raw", "F32", 64, 192000),
     Desc("audio", "raw", "F32", 0, 48000),
     Desc("audio", "raw", "F32", 65, 48000),
     Desc("audio", "raw", "F32", 2, 0),
     Desc("audio", "raw", "F32", 2, 192001),
     Desc("audio", "dsp", "F32", 2, 48000),
     Desc("video", "raw", "F32", 2, 48000)}

Malformed ==
    {[Desc("audio", "raw", "F32", 2, 48000) EXCEPT !.parse_res = -EINVAL],
     [Desc("audio", "raw", "F32", 2, 48000) EXCEPT !.raw_parse_res = -EPROTO]}

Descriptors == WellFormed \cup Malformed

\* struct spa_audio_info as filled by the two parse calls
ParsedInfo(d) ==
    [media_type |-> d.media_type, media_subtype |-> d.media_subtype,
     format |-> d.format, channels |-> d.channels, rate |-> d.rate]

(* The shared memory the host binds: two buffer-queue areas and one        *)
(* rate-match area.  The buffers array of an area is fixed; the host       *)
(* writes buffer_id.                                                       *)
IoRegions == {"R1", "R2"}
RateRegions == {"RM"}

NoBuf == [present |-> FALSE, has_chunk |-> FALSE, size |-> 0]
Buf(sz) == [present |-> TRUE, has_chunk |-> TRUE, size |-> sz]
BufNoChunk == [present |-> TRUE, has_chunk |-> FALSE, size |-> 0]

\* io->buffers[k] of region r, for k < MAX_BUFFERS
Buffers(r, k) ==
    IF r = "R1"
    THEN CASE k = 0 -> Buf(4096)
           [] k = 1 -> BufNoChunk
           [] OTHER -> NoBuf
    ELSE CASE k = 0 -> Buf(4100)
           [] OTHER -> NoBuf

\* the identifiers the host writes into an area
HostIds(r) == IF r = "R1" THEN {0, 1, 2, MAX_BUFFERS} ELSE {0}

Listeners == 1..MaxListeners

VARIABLES
    have_format, current_format, started, io, rate_match,
    frame_count, buffer_count, hooks,
    mem,
    pc, l_io, l_buf, l_res,
    last, emitted, halted, inflight_paused, host_n_buffers,
    f_index, f_factory, f_loop, registered

vars ==
    <<have_format, current_format, started, io, rate_match,
      frame_count, buffer_count, hooks, mem,
      pc, l_io, l_buf, l_res, last, emitted, halted, inflight_paused,
      host_n_buffers, f_index, f_factory, f_loop, registered>>

node_vars == <<have_format, current_format, started, io, rate_match, hooks>>
stat_vars == <<frame_count, buffer_count>>
proc_vars == <<pc, l_io, l_buf, l_res>>
\* the host's variables of its factory enumeration (null.c)
factory_vars == <<f_index, f_factory, f_loop, registered>>

\* null_state_init: spa_zero(*state), spa_hook_list_init, for the format
\* fields, the started flag, the bindings and the hook list
ZeroedState ==
    /\ have_format = FALSE
    /\ current_format = ZeroFormat
    /\ started = FALSE
    /\ io = NULL
    /\ rate_match = NULL
    /\ hooks = <<>>

\* null_state_init: spa_zero(*state), for the two counters
ZeroedCounters ==
    /\ frame_count = 0
    /\ buffer_count = 0

\* no call is in flight, nothing has been delivered, and the host has
\* written nothing into the areas it will bind
Quiet ==
    /\ mem = [r \in IoRegions \cup RateRegions |->
                IF r \in IoRegions THEN SPA_ID_INVALID ELSE 0]
    /\ pc = "idle"
    /\ l_io = NULL
    /\ l_buf = NoBuf
    /\ l_res = SPA_STATUS_OK
    /\ emitted = <<>>
    /\ halted = FALSE
    /\ inflight_paused = FALSE
    /\ host_n_buffers = 0
    /\ f_index = 0
    /\ f_factory = NULL
    /\ f_loop = "idle"
    /\ registered = <<>>

\* the node after a successful impl_init
Init ==
    /\ ZeroedState
    /\ ZeroedCounters
    /\ Quiet
    /\ last = [op |-> "init", res |-> 0]

(* ------------------------------------------------------------ listeners *)

\* Emit walking the hook list from its tail: the newest listener first
EmitNewestFirst(event, hf, cf) ==
    [i \in 1..Len(hooks) |->
        [listener |-> hooks[Len(hooks) + 1 - i], event |-> event,
         have_format |-> hf, current_format |-> cf]]

\* spa_node_call(&state->hooks, ...): one delivery per hook, in list order.
\* hf and cf are the format fields of the node at the time of the call,
\* which a listener reads when it looks at the node from its callback.
Emit(event, hf, cf) ==
    [i \in 1..Len(hooks) |->
        [listener |-> hooks[i], event |-> event,
         have_format |-> hf, current_format |-> cf]]

\* impl_node_add_listener: spa_hook_list_append.  A hook is in one list at
\* most, so a listener registers once.
impl_node_add_listener(l) ==
    /\ pc # "crashed"
    /\ \A i \in 1..Len(hooks) : hooks[i] # l
    /\ hooks' = Append(hooks, l)
    /\ last' = [op |-> "add_listener", res |-> 0]
    /\ emitted' = <<>>
    /\ UNCHANGED <<have_format, current_format, started, io, rate_match>>
    /\ UNCHANGED <<stat_vars, mem, proc_vars>>
    /\ UNCHANGED <<halted, inflight_paused, host_n_buffers, factory_vars>>

(* ----------------------------------------------------------------- set_io *)

\* BoundRegion refusing a region of exactly the size of the layout
BoundRegionStrict(data, size, need) == IF size > need THEN data ELSE NULL

\* the binding set_io stores for a region of `size` bytes
BoundRegion(data, size, need) == IF size >= need THEN data ELSE NULL

\* impl_node_set_io without the default case: an unknown kind leaves the
\* switch and the call returns 0
impl_node_set_io_no_default(id, data, size) ==
    /\ pc # "crashed"
    /\ CASE id = "Buffers" ->
              /\ io' = BoundRegion(data, size, SIZEOF_IO_BUFFERS)
              /\ rate_match' = rate_match
              /\ last' = [op |-> "set_io", res |-> 0, id |-> id,
                          short |-> size < SIZEOF_IO_BUFFERS]
         [] id = "RateMatch" ->
              /\ rate_match' = BoundRegion(data, size, SIZEOF_IO_RATE_MATCH)
              /\ io' = io
              /\ last' = [op |-> "set_io", res |-> 0, id |-> id,
                          short |-> size < SIZEOF_IO_RATE_MATCH]
         [] OTHER ->
              /\ UNCHANGED <<io, rate_match>>
              /\ last' = [op |-> "set_io", res |-> 0]
    /\ emitted' = <<>>
    /\ UNCHANGED <<have_format, current_format, started, hooks>>
    /\ UNCHANGED <<stat_vars, mem, proc_vars>>
    /\ UNCHANGED <<halted, inflight_paused, host_n_buffers, factory_vars>>

\* impl_node_set_io.  last records, with the value returned, the kind that
\* was bound and whether the region was shorter than its layout.
impl_node_set_io(id, data, size) ==
    /\ pc # "crashed"
    /\ CASE id = "Buffers" ->
              /\ io' = BoundRegion(data, size, SIZEOF_IO_BUFFERS)
              /\ rate_match' = rate_match
              /\ last' = [op |-> "set_io", res |-> 0, id |-> id,
                          short |-> size < SIZEOF_IO_BUFFERS]
         [] id = "RateMatch" ->
              /\ rate_match' = BoundRegion(data, size, SIZEOF_IO_RATE_MATCH)
              /\ io' = io
              /\ last' = [op |-> "set_io", res |-> 0, id |-> id,
                          short |-> size < SIZEOF_IO_RATE_MATCH]
         [] OTHER ->
              /\ UNCHANGED <<io, rate_match>>
              /\ last' = [op |-> "set_io", res |-> -ENOENT]
    /\ emitted' = <<>>
    /\ UNCHANGED <<have_format, current_format, started, hooks>>
    /\ UNCHANGED <<stat_vars, mem, proc_vars>>
    /\ UNCHANGED <<halted, inflight_paused, host_n_buffers, factory_vars>>

(* ------------------------------------------------------------ use_buffers *)

\* impl_node_use_buffers: accepts the buffers of input port 0 and stores
\* nothing.  host_n_buffers is the host's own record of the n_buffers it
\* last passed; the node keeps none.
impl_node_use_buffers(direction, port_id, n_buffers) ==
    LET res == IF direction # "Input" \/ port_id # 0 THEN -EINVAL ELSE 0 IN
    /\ pc # "crashed"
    /\ host_n_buffers' = IF res = 0 THEN n_buffers ELSE host_n_buffers
    /\ UNCHANGED factory_vars
    /\ last' = [op |-> "use_buffers", res |-> res]
    /\ emitted' = <<>>
    /\ UNCHANGED <<node_vars, stat_vars, mem, proc_vars>>
    /\ UNCHANGED <<halted, inflight_paused>>

(* ----------------------------------------------------------- send_command *)

\* CommandOutcome with Start's have_format check left out
CommandOutcomeStartUnchecked(cmd) ==
    CASE cmd = "Start" -> [res |-> 0, started |-> TRUE]
      [] cmd \in {"Suspend", "Pause"} -> [res |-> 0, started |-> FALSE]
      [] OTHER -> [res |-> -ENOTSUP, started |-> started]

\* CommandOutcome with Pause and Suspend flipping started
CommandOutcomePauseToggles(cmd) ==
    CASE cmd = "Start" ->
           IF ~have_format
           THEN [res |-> -EIO, started |-> started]
           ELSE [res |-> 0, started |-> TRUE]
      [] cmd \in {"Suspend", "Pause"} -> [res |-> 0, started |-> ~started]
      [] OTHER -> [res |-> -ENOTSUP, started |-> started]

\* CommandOutcome without the default case: an unknown command leaves the
\* switch with the initial res
CommandOutcomeNoDefault(cmd) ==
    CASE cmd = "Start" ->
           IF ~have_format
           THEN [res |-> -EIO, started |-> started]
           ELSE [res |-> 0, started |-> TRUE]
      [] cmd \in {"Suspend", "Pause"} -> [res |-> 0, started |-> FALSE]
      [] OTHER -> [res |-> 0, started |-> started]

\* the return value and the started flag send_command leaves
CommandOutcome(cmd) ==
    CASE cmd = "Start" ->
           IF ~have_format
           THEN [res |-> -EIO, started |-> started]
           ELSE [res |-> 0, started |-> TRUE]
      [] cmd \in {"Suspend", "Pause"} -> [res |-> 0, started |-> FALSE]
      [] OTHER -> [res |-> -ENOTSUP, started |-> started]

impl_node_send_command(cmd) ==
    LET out == CommandOutcome(cmd) IN
    /\ pc # "crashed"
    /\ started' = out.started
    /\ last' = [op |-> cmd, res |-> out.res]
    /\ emitted' = <<>>
    /\ halted' = CASE cmd \in {"Suspend", "Pause"} -> TRUE
                   [] cmd = "Start" /\ out.res = 0 -> FALSE
                   [] OTHER -> halted
    /\ inflight_paused' =
           IF cmd \in {"Suspend", "Pause"} /\ pc # "idle"
           THEN TRUE ELSE inflight_paused
    /\ UNCHANGED <<have_format, current_format, io, rate_match, hooks>>
    /\ UNCHANGED <<stat_vars, mem, proc_vars, host_n_buffers, factory_vars>>

(* -------------------------------------------------------------- set_param *)

\* ValidateFormat with the channel bound off by one (>= for >)
ValidateFormatOffByOne(d) ==
    IF d.parse_res < 0 THEN d.parse_res
    ELSE IF d.media_type # "audio" \/ d.media_subtype # "raw" THEN -EINVAL
    ELSE IF d.raw_parse_res < 0 THEN d.raw_parse_res
    ELSE IF d.channels = 0 \/ d.channels >= MAX_CHANNELS THEN -EINVAL
    ELSE IF d.rate = 0 \/ d.rate > MAX_RATE THEN -EINVAL
    ELSE 0

\* the parse and validation chain of set_param: 0, or the error returned
ValidateFormat(d) ==
    IF d.parse_res < 0 THEN d.parse_res
    ELSE IF d.media_type # "audio" \/ d.media_subtype # "raw" THEN -EINVAL
    ELSE IF d.raw_parse_res < 0 THEN d.raw_parse_res
    ELSE IF d.channels = 0 \/ d.channels > MAX_CHANNELS THEN -EINVAL
    ELSE IF d.rate = 0 \/ d.rate > MAX_RATE THEN -EINVAL
    ELSE 0

\* SetFormatOutcome parsing straight into state->current_format, so that a
\* descriptor rejected by a later check has already overwritten it
SetFormatOutcomeParseInPlace(param) ==
    IF param = NULL_POD
    THEN [res |-> 0, have_format |-> FALSE, current_format |-> ZeroFormat,
          notify |-> TRUE]
    ELSE IF param.parse_res < 0
    THEN [res |-> param.parse_res, have_format |-> have_format,
          current_format |-> current_format, notify |-> FALSE]
    ELSE IF ValidateFormat(param) < 0
    THEN [res |-> ValidateFormat(param), have_format |-> have_format,
          current_format |-> ParsedInfo(param), notify |-> FALSE]
    ELSE [res |-> 0, have_format |-> TRUE,
          current_format |-> ParsedInfo(param), notify |-> TRUE]

\* SetFormatOutcome keeping the format it already holds when a second
\* descriptor is accepted
SetFormatOutcomeKeepsFirst(param) ==
    IF param = NULL_POD
    THEN [res |-> 0, have_format |-> FALSE, current_format |-> ZeroFormat,
          notify |-> TRUE]
    ELSE IF ValidateFormat(param) < 0
    THEN [res |-> ValidateFormat(param), have_format |-> have_format,
          current_format |-> current_format, notify |-> FALSE]
    ELSE [res |-> 0, have_format |-> TRUE,
          current_format |-> IF have_format THEN current_format
                             ELSE ParsedInfo(param),
          notify |-> TRUE]

\* SetFormatOutcome clearing the flag without spa_zero of the format
SetFormatOutcomeClearKeepsFormat(param) ==
    IF param = NULL_POD
    THEN [res |-> 0, have_format |-> FALSE,
          current_format |-> current_format, notify |-> TRUE]
    ELSE IF ValidateFormat(param) < 0
    THEN [res |-> ValidateFormat(param), have_format |-> have_format,
          current_format |-> current_format, notify |-> FALSE]
    ELSE [res |-> 0, have_format |-> TRUE,
          current_format |-> ParsedInfo(param), notify |-> TRUE]

\* what set_param(Format, param) returns and leaves in the format fields,
\* and whether it reaches the param_changed call
SetFormatOutcome(param) ==
    IF param = NULL_POD
    THEN [res |-> 0, have_format |-> FALSE, current_format |-> ZeroFormat,
          notify |-> TRUE]
    ELSE IF ValidateFormat(param) < 0
    THEN [res |-> ValidateFormat(param), have_format |-> have_format,
          current_format |-> current_format, notify |-> FALSE]
    ELSE [res |-> 0, have_format |-> TRUE,
          current_format |-> ParsedInfo(param), notify |-> TRUE]

\* impl_node_set_param calling param_changed before it stores the format
impl_node_set_param_notify_first(id, param) ==
    /\ pc # "crashed"
    /\ IF id = "Format"
       THEN LET out == SetFormatOutcome(param) IN
            /\ have_format' = out.have_format
            /\ current_format' = out.current_format
            /\ emitted' = IF out.notify
                          THEN Emit("param_changed", have_format,
                                    current_format)
                          ELSE <<>>
            /\ last' = [op |-> "set_param", res |-> out.res]
       ELSE /\ UNCHANGED <<have_format, current_format>>
            /\ emitted' = <<>>
            /\ last' = [op |-> "set_param", res |-> -ENOTSUP]
    /\ UNCHANGED <<started, io, rate_match, hooks>>
    /\ UNCHANGED <<stat_vars, mem, proc_vars>>
    /\ UNCHANGED <<halted, inflight_paused, host_n_buffers, factory_vars>>

\* impl_node_set_param resetting the statistics when the format is cleared
impl_node_set_param_resets_counters(id, param) ==
    /\ pc # "crashed"
    /\ IF id = "Format"
       THEN LET out == SetFormatOutcome(param) IN
            /\ have_format' = out.have_format
            /\ current_format' = out.current_format
            /\ emitted' = IF out.notify
                          THEN Emit("param_changed", out.have_format,
                                    out.current_format)
                          ELSE <<>>
            /\ last' = [op |-> "set_param", res |-> out.res]
            /\ frame_count' = IF param = NULL_POD THEN 0 ELSE frame_count
            /\ buffer_count' = IF param = NULL_POD THEN 0 ELSE buffer_count
       ELSE /\ UNCHANGED <<have_format, current_format, stat_vars>>
            /\ emitted' = <<>>
            /\ last' = [op |-> "set_param", res |-> -ENOTSUP]
    /\ UNCHANGED <<started, io, rate_match, hooks>>
    /\ UNCHANGED <<mem, proc_vars>>
    /\ UNCHANGED <<halted, inflight_paused, host_n_buffers, factory_vars>>

impl_node_set_param(id, param) ==
    /\ pc # "crashed"
    /\ IF id = "Format"
       THEN LET out == SetFormatOutcome(param) IN
            /\ have_format' = out.have_format
            /\ current_format' = out.current_format
            /\ emitted' = IF out.notify
                          THEN Emit("param_changed", out.have_format,
                                    out.current_format)
                          ELSE <<>>
            /\ last' = [op |-> "set_param", res |-> out.res]
       ELSE /\ UNCHANGED <<have_format, current_format>>
            /\ emitted' = <<>>
            /\ last' = [op |-> "set_param", res |-> -ENOTSUP]
    /\ UNCHANGED <<started, io, rate_match, hooks>>
    /\ UNCHANGED <<stat_vars, mem, proc_vars>>
    /\ UNCHANGED <<halted, inflight_paused, host_n_buffers, factory_vars>>

(* ------------------------------------------------------- port operations *)

\* impl_node_set_port_param refusing a port the node does not have
impl_node_set_port_param_checks_port(direction, port_id, id, param) ==
    IF direction = "Input" /\ port_id = 0
    THEN impl_node_set_param(id, param)
    ELSE /\ pc # "crashed"
         /\ last' = [op |-> "set_param", res |-> -EINVAL]
         /\ emitted' = <<>>
         /\ UNCHANGED <<node_vars, stat_vars, mem, proc_vars>>
         /\ UNCHANGED <<halted, inflight_paused, host_n_buffers, factory_vars>>

\* return impl_node_set_param(object, id, flags, param);
impl_node_set_port_param(direction, port_id, id, param) ==
    impl_node_set_param(id, param)

\* return impl_node_set_io(object, id, data, size);
impl_node_set_port_io(direction, port_id, id, data, size) ==
    impl_node_set_io(id, data, size)

(* ------------------------------------------------------------ enumeration *)

\* the pod spa_format_audio_raw_build makes in enum_params
EnumFormat == Desc("audio", "raw", "F32P", 2, 48000)

\* what an uninitialised pointer of the stack may hold: nothing, a stale
\* address, or by chance the pod that was just built
UninitParam == {NULL_POD, [stale |-> TRUE], EnumFormat}

\* spa_node_call(&state->hooks, ..., result, seq, 0, type, &result): one
\* delivery per hook, in list order, each with the same result structure
EmitResult(seq, type, result) ==
    [i \in 1..Len(hooks) |->
        [listener |-> hooks[i], event |-> "result", seq |-> seq, res |-> 0,
         type |-> type, result |-> result]]

\* EnumParamsOutcome without the test of start: every index yields the pod
EnumParamsOutcomeAnyStart(id, start, num) ==
    IF num = 0 THEN [res |-> -EINVAL, notify |-> FALSE]
    ELSE IF id = "Format"
    THEN [res |-> 1, notify |-> TRUE]
    ELSE [res |-> 0, notify |-> FALSE]

\* the count enum_params returns and whether it reaches the result call
EnumParamsOutcome(id, start, num) ==
    IF num = 0 THEN [res |-> -EINVAL, notify |-> FALSE]
    ELSE IF id = "Format" /\ start = 0 /\ 0 < num
    THEN [res |-> 1, notify |-> TRUE]
    ELSE [res |-> 0, notify |-> FALSE]

\* impl_node_enum_params.  The result structure has id and next assigned;
\* its param is never assigned, so a listener reads what the stack held.
\* last records the arguments with the count returned.
impl_node_enum_params(seq, id, start, num) ==
    LET out == EnumParamsOutcome(id, start, num) IN
    /\ pc # "crashed"
    /\ \E p \in UninitParam :
          emitted' = IF out.notify
                     THEN EmitResult(seq, "NodeParams",
                                     [id |-> id, next |-> start, param |-> p])
                     ELSE <<>>
    /\ last' = [op |-> "enum_params", res |-> out.res, seq |-> seq,
                id |-> id, start |-> start, num |-> num]
    /\ UNCHANGED <<node_vars, stat_vars, mem, proc_vars>>
    /\ UNCHANGED <<halted, inflight_paused, host_n_buffers, factory_vars>>

\* the count enum_ports returns; it reaches the result call when it is 1
EnumPortsOutcome(direction, start, num) ==
    IF direction = "Input" /\ start = 0 /\ num > 0 THEN 1 ELSE 0

\* impl_node_enum_ports
impl_node_enum_ports(seq, direction, start, num) ==
    LET res == EnumPortsOutcome(direction, start, num) IN
    /\ pc # "crashed"
    /\ emitted' = IF res = 1
                  THEN EmitResult(seq, "NodePorts", [next |-> start])
                  ELSE <<>>
    /\ last' = [op |-> "enum_ports", res |-> res, seq |-> seq,
                direction |-> direction, start |-> start, num |-> num]
    /\ UNCHANGED <<node_vars, stat_vars, mem, proc_vars>>
    /\ UNCHANGED <<halted, inflight_paused, host_n_buffers, factory_vars>>

\* GetPortInfoOutcome without the test of port_id
GetPortInfoOutcomeAnyInput(direction, port_id) ==
    IF direction # "Input"
    THEN [res |-> -EINVAL, info |-> NULL]
    ELSE [res |-> 0, info |-> "port_info"]

\* what get_port_info returns and stores in *info
GetPortInfoOutcome(direction, port_id) ==
    IF direction # "Input" \/ port_id # 0
    THEN [res |-> -EINVAL, info |-> NULL]
    ELSE [res |-> 0, info |-> "port_info"]

\* impl_node_get_port_info
impl_node_get_port_info(direction, port_id) ==
    LET out == GetPortInfoOutcome(direction, port_id) IN
    /\ pc # "crashed"
    /\ last' = [op |-> "get_port_info", res |-> out.res, info |-> out.info,
                direction |-> direction, port_id |-> port_id]
    /\ emitted' = <<>>
    /\ UNCHANGED <<node_vars, stat_vars, mem, proc_vars>>
    /\ UNCHANGED <<halted, inflight_paused, host_n_buffers, factory_vars>>

(* ------------------------------------------------------------------- init *)

\* ImplInitOutcome asking for the log only
ImplInitOutcomeLogOnly(support) ==
    IF "Log" \notin support THEN -EINVAL ELSE 0

\* impl_init: -EINVAL without the log or the system interface, else what
\* null_state_init returns
ImplInitOutcome(support) ==
    IF "Log" \notin support \/ "System" \notin support THEN -EINVAL ELSE 0

\* null_state_cleanup that removes the hooks and leaves the flags alone
null_state_cleanup_hooks_only ==
    /\ pc = "idle"
    /\ hooks' = <<>>
    /\ last' = [op |-> "cleanup", res |-> 0]
    /\ emitted' = <<>>
    /\ UNCHANGED <<have_format, current_format, started, io, rate_match>>
    /\ UNCHANGED <<stat_vars, mem, proc_vars>>
    /\ UNCHANGED <<halted, inflight_paused, host_n_buffers, factory_vars>>

\* null_state_cleanup: spa_hook_list_clean(&state->hooks);
\* state->started = false; state->have_format = false;
null_state_cleanup ==
    /\ pc = "idle"
    /\ hooks' = <<>>
    /\ started' = FALSE
    /\ have_format' = FALSE
    /\ last' = [op |-> "cleanup", res |-> 0]
    /\ emitted' = <<>>
    /\ UNCHANGED <<current_format, io, rate_match>>
    /\ UNCHANGED <<stat_vars, mem, proc_vars>>
    /\ UNCHANGED <<halted, inflight_paused, host_n_buffers, factory_vars>>

(* ---------------------------------------------------- factory enumeration *)
(* spa_handle_factory_enum(factory, index) of null.c.  The host passes the *)
(* addresses of its variables f_factory and f_index, or NULL.               *)

HostVar == "host_var"

\* spa_handle_factory_enum that returns the factory without (*index)++
FactoryEnumOutcomeNoIncrement(factory, index) ==
    IF factory = NULL \/ index = NULL
    THEN [res |-> -EINVAL, index |-> f_index, factory |-> f_factory]
    ELSE IF f_index = 0
    THEN [res |-> 1, index |-> f_index,
          factory |-> "spa_null_sink_factory"]
    ELSE [res |-> 0, index |-> f_index, factory |-> f_factory]

\* the value returned and the values left in *index and *factory
FactoryEnumOutcome(factory, index) ==
    IF factory = NULL \/ index = NULL
    THEN [res |-> -EINVAL, index |-> f_index, factory |-> f_factory]
    ELSE IF f_index = 0
    THEN [res |-> 1, index |-> f_index + 1,
          factory |-> "spa_null_sink_factory"]
    ELSE [res |-> 0, index |-> f_index, factory |-> f_factory]

spa_handle_factory_enum(factory, index) ==
    LET o == FactoryEnumOutcome(factory, index) IN
    /\ f_index' = o.index
    /\ f_factory' = o.factory
    /\ last' = [op |-> "factory_enum", res |-> o.res,
                factory |-> factory, index |-> index]

\* the host's loop of null.c: index = 0, then
\* while (spa_handle_factory_enum(&factory, &index)) register_factory(factory)
LoopStart ==
    /\ f_loop # "running"
    /\ f_loop' = "running"
    /\ f_index' = 0
    /\ registered' = <<>>
    /\ last' = [op |-> "loop_start", res |-> 0]
    /\ UNCHANGED f_factory
    /\ UNCHANGED <<node_vars, stat_vars, mem, proc_vars>>
    /\ UNCHANGED <<emitted, halted, inflight_paused, host_n_buffers>>

LoopCall ==
    /\ f_loop = "running"
    /\ spa_handle_factory_enum(HostVar, HostVar)
    /\ registered' = IF last'.res # 0
                     THEN Append(registered, f_factory')
                     ELSE registered
    /\ f_loop' = IF last'.res # 0 THEN "running" ELSE "done"
    /\ UNCHANGED <<node_vars, stat_vars, mem, proc_vars>>
    /\ UNCHANGED <<emitted, halted, inflight_paused, host_n_buffers>>

\* a single call outside the loop, with any index and any pointers
ProbeCall ==
    /\ f_loop # "running"
    /\ \E factory \in {NULL, HostVar} : \E index \in {NULL, HostVar} :
          spa_handle_factory_enum(factory, index)
    /\ UNCHANGED <<f_loop, registered>>
    /\ UNCHANGED <<node_vars, stat_vars, mem, proc_vars>>
    /\ UNCHANGED <<emitted, halted, inflight_paused, host_n_buffers>>

\* the host sets its variables before a single call
HostSetsIndex ==
    /\ f_loop # "running"
    /\ \E i \in 0..MaxFactoryIndex : f_index' = i
    /\ \E f \in {NULL, "stale_factory"} : f_factory' = f
    /\ last' = [op |-> "host_index", res |-> 0]
    /\ UNCHANGED <<f_loop, registered>>
    /\ UNCHANGED <<node_vars, stat_vars, mem, proc_vars>>
    /\ UNCHANGED <<emitted, halted, inflight_paused, host_n_buffers>>

(* ---------------------------------------------------------------- process *)
(* A call of impl_node_process is a record ps of its program point, its    *)
(* locals (io, buf, the value it returns) and the memory it writes: the    *)
(* buffer-queue areas and the two counters.  The fields of the node it     *)
(* only reads (started, have_format, current_format, io, rate_match) are   *)
(* read from the state at the step that reads them.  Each step yields the  *)
(* set of outcomes the build can produce.                                  *)

ProcessStart ==
    [pc |-> "entry", l_io |-> NULL, l_buf |-> NoBuf, l_res |-> SPA_STATUS_OK,
     mem |-> mem, frame_count |-> frame_count, buffer_count |-> buffer_count]

Return(ps, res) == [ps EXCEPT !.pc = "ret", !.l_res = res]

\* StepEntry without the test of started
StepEntryFormatOnly(ps) ==
    IF ~have_format
    THEN {Return(ps, SPA_STATUS_OK)}
    ELSE {[ps EXCEPT !.pc = "get_io"]}

\* if (!state->started || !state->have_format) return SPA_STATUS_OK;
StepEntry(ps) ==
    IF ~started \/ ~have_format
    THEN {Return(ps, SPA_STATUS_OK)}
    ELSE {[ps EXCEPT !.pc = "get_io"]}

\* io = state->io; if (io == NULL) return SPA_STATUS_OK;
StepGetIo(ps) ==
    IF io = NULL
    THEN {Return([ps EXCEPT !.l_io = io], SPA_STATUS_OK)}
    ELSE {[ps EXCEPT !.l_io = io, !.pc = "check_id"]}

\* if (io->buffer_id == SPA_ID_INVALID) return SPA_STATUS_OK;
StepCheckId(ps) ==
    IF ps.mem[ps.l_io] = SPA_ID_INVALID
    THEN {Return(ps, SPA_STATUS_OK)}
    ELSE {[ps EXCEPT !.pc = "range"]}

\* StepRange returning on an identifier out of range without resetting it
StepRangeNoReset(ps) ==
    IF ps.mem[ps.l_io] >= MAX_BUFFERS
    THEN {Return(ps, SPA_STATUS_OK)}
    ELSE {[ps EXCEPT !.pc = "get_buf"]}

\* if (io->buffer_id >= MAX_BUFFERS) { io->buffer_id = SPA_ID_INVALID; return }
StepRange(ps) ==
    IF ps.mem[ps.l_io] >= MAX_BUFFERS
    THEN {Return([ps EXCEPT !.mem[ps.l_io] = SPA_ID_INVALID], SPA_STATUS_OK)}
    ELSE {[ps EXCEPT !.pc = "get_buf"]}

\* StepGetBuf returning on an absent buffer without the reset
StepGetBufKeepsId(ps) ==
    LET buf == Buffers(ps.l_io, ps.mem[ps.l_io]) IN
    IF ~buf.present
    THEN {Return(ps, SPA_STATUS_OK)}
    ELSE {[ps EXCEPT !.l_buf = buf, !.pc = "stats"]}

\* StepGetBuf reporting an absent buffer to the caller as -EINVAL
StepGetBufError(ps) ==
    LET buf == Buffers(ps.l_io, ps.mem[ps.l_io]) IN
    IF ~buf.present
    THEN {Return([ps EXCEPT !.mem[ps.l_io] = SPA_ID_INVALID], -EINVAL)}
    ELSE {[ps EXCEPT !.l_buf = buf, !.pc = "stats"]}

\* buf = io->buffers[io->buffer_id]; if (buf == NULL) { reset; return }
StepGetBuf(ps) ==
    LET buf == Buffers(ps.l_io, ps.mem[ps.l_io]) IN
    IF ~buf.present
    THEN {Return([ps EXCEPT !.mem[ps.l_io] = SPA_ID_INVALID], SPA_STATUS_OK)}
    ELSE {[ps EXCEPT !.l_buf = buf, !.pc = "stats"]}

\* frames = size / (channels * sizeof(float))
Frames(size, channels) == size \div (channels * SIZEOF_FLOAT)

\* uint64_t frame_count, buffer_count.  A counter value v is kept as the
\* integer nearest 0 that is congruent to it modulo 2^64: v itself when it
\* is small, v - 2^64 when it is within reach of wrapping.  Sums are
\* computed on the 64 bits, as four 16-bit limbs, least significant first.
LimbBase == 2^16

Limbs(n) ==
    <<n % LimbBase,
      (n \div LimbBase) % LimbBase,
      IF n < 0 THEN LimbBase - 1 ELSE 0,
      IF n < 0 THEN LimbBase - 1 ELSE 0>>

\* the sum of two 64-bit values; the carry out of the top limb is lost
AddLimbs(a, b) ==
    LET s1 == a[1] + b[1]
        s2 == a[2] + b[2] + (s1 \div LimbBase)
        s3 == a[3] + b[3] + (s2 \div LimbBase)
        s4 == a[4] + b[4] + (s3 \div LimbBase)
    IN  <<s1 % LimbBase, s2 % LimbBase, s3 % LimbBase, s4 % LimbBase>>

\* the integer that stands for a 64-bit value; the bounds of the model keep
\* the counters among the values that have one
CounterValue(l) ==
    IF l[3] = 0 /\ l[4] = 0 /\ l[2] < LimbBase \div 2
    THEN l[2] * LimbBase + l[1]
    ELSE IF l[3] = LimbBase - 1 /\ l[4] = LimbBase - 1
            /\ l[2] >= LimbBase \div 2
    THEN (l[2] - LimbBase) * LimbBase + l[1]
    ELSE CHOOSE n \in {} : TRUE

\* counter += n on a uint64_t
Add64(counter, n) == CounterValue(AddLimbs(Limbs(counter), Limbs(n)))

\* StepStats counting the buffer whether or not it carries a chunk
StepStatsCountsAll(ps) ==
    IF ~ps.l_buf.has_chunk
    THEN {[ps EXCEPT !.buffer_count = Add64(@, 1), !.pc = "mark"]}
    ELSE IF current_format.channels * SIZEOF_FLOAT = 0
    THEN {[ps EXCEPT !.pc = "crashed"],
          [ps EXCEPT !.buffer_count = Add64(@, 1), !.pc = "mark"]}
    ELSE {[ps EXCEPT
              !.frame_count =
                  Add64(@, Frames(ps.l_buf.size, current_format.channels)),
              !.buffer_count = Add64(@, 1),
              !.pc = "mark"]}

\* StepStats with -= for += on the frame counter
StepStatsSubtracts(ps) ==
    IF ~ps.l_buf.has_chunk
    THEN {[ps EXCEPT !.pc = "mark"]}
    ELSE IF current_format.channels * SIZEOF_FLOAT = 0
    THEN {[ps EXCEPT !.pc = "crashed"],
          [ps EXCEPT !.buffer_count = Add64(@, 1), !.pc = "mark"]}
    ELSE {[ps EXCEPT
              !.frame_count =
                  Add64(@, -Frames(ps.l_buf.size, current_format.channels)),
              !.buffer_count = Add64(@, 1),
              !.pc = "mark"]}

\* if (buf->datas[0].chunk) { frames = ...; frame_count += frames;
\* buffer_count++ }.  A zero divisor is undefined: the build traps, or the
\* division yields 0.
StepStats(ps) ==
    IF ~ps.l_buf.has_chunk
    THEN {[ps EXCEPT !.pc = "mark"]}
    ELSE IF current_format.channels * SIZEOF_FLOAT = 0
    THEN {[ps EXCEPT !.pc = "crashed"],
          [ps EXCEPT !.buffer_count = Add64(@, 1), !.pc = "mark"]}
    ELSE {[ps EXCEPT
              !.frame_count =
                  Add64(@, Frames(ps.l_buf.size, current_format.channels)),
              !.buffer_count = Add64(@, 1),
              !.pc = "mark"]}

\* StepMark leaving the identifier of the consumed buffer in the area
StepMarkKeepsId(ps) ==
    {[ps EXCEPT !.pc = "rate"]}

\* StepMark that gives up when the node was stopped under the call
StepMarkIfStarted(ps) ==
    IF started
    THEN {[ps EXCEPT !.mem[ps.l_io] = SPA_ID_INVALID, !.pc = "rate"]}
    ELSE {[ps EXCEPT !.pc = "rate"]}

\* io->buffer_id = SPA_ID_INVALID;
StepMark(ps) ==
    {[ps EXCEPT !.mem[ps.l_io] = SPA_ID_INVALID, !.pc = "rate"]}

\* StepRate adjusting the rate-match area when one is bound
StepRateAdjusts(ps) ==
    IF rate_match # NULL
    THEN {Return([ps EXCEPT !.mem[rate_match] = @ + 1], SPA_STATUS_OK)}
    ELSE {Return(ps, SPA_STATUS_OK)}

\* if (state->rate_match) { }  return SPA_STATUS_OK;
StepRate(ps) ==
    IF rate_match # NULL
    THEN {Return(ps, SPA_STATUS_OK)}
    ELSE {Return(ps, SPA_STATUS_OK)}

\* one step of impl_node_process from program point ps.pc
ProcessStep(ps) ==
    CASE ps.pc = "entry" -> StepEntry(ps)
      [] ps.pc = "get_io" -> StepGetIo(ps)
      [] ps.pc = "check_id" -> StepCheckId(ps)
      [] ps.pc = "range" -> StepRange(ps)
      [] ps.pc = "get_buf" -> StepGetBuf(ps)
      [] ps.pc = "stats" -> StepStats(ps)
      [] ps.pc = "mark" -> StepMark(ps)
      [] ps.pc = "rate" -> StepRate(ps)
      [] OTHER -> {ps}

\* the outcomes of a whole call: the steps, run until it returns or traps
RECURSIVE ProcessRun(_)
ProcessRun(ps) ==
    IF ps.pc \in {"ret", "crashed"}
    THEN {ps}
    ELSE UNION {ProcessRun(t) : t \in ProcessStep(ps)}

\* the call in flight, as a record
Current ==
    [pc |-> pc, l_io |-> l_io, l_buf |-> l_buf, l_res |-> l_res,
     mem |-> mem, frame_count |-> frame_count, buffer_count |-> buffer_count]

\* impl_node_process, a whole call (the calls of Spec are serialised).  last
\* records, with the value returned, the area the call read (NULL when it
\* returned before reading one) and the identifier it found there.
impl_node_process ==
    /\ pc = "idle"
    /\ \E f \in ProcessRun(ProcessStart) :
          /\ mem' = f.mem
          /\ frame_count' = f.frame_count
          /\ buffer_count' = f.buffer_count
          /\ pc' = IF f.pc = "crashed" THEN "crashed" ELSE "idle"
          /\ last' = [op |-> "process", res |-> f.l_res, area |-> f.l_io,
                      id |-> IF f.l_io = NULL THEN SPA_ID_INVALID
                             ELSE mem[f.l_io]]
    /\ l_io' = NULL
    /\ l_buf' = NoBuf
    /\ l_res' = SPA_STATUS_OK
    /\ emitted' = <<>>
    /\ UNCHANGED <<node_vars, halted, inflight_paused, host_n_buffers, factory_vars>>

\* the real-time context enters impl_node_process and runs its first check
ProcessBegin ==
    /\ pc = "idle"
    /\ \E t \in ProcessStep(ProcessStart) :
          /\ pc' = t.pc
          /\ l_io' = t.l_io
          /\ l_buf' = t.l_buf
          /\ l_res' = t.l_res
          /\ mem' = t.mem
          /\ frame_count' = t.frame_count
          /\ buffer_count' = t.buffer_count
    /\ inflight_paused' = FALSE
    /\ UNCHANGED <<node_vars, last, emitted, halted, host_n_buffers, factory_vars>>

\* the call in flight runs its next step
ProcessNext ==
    /\ pc \notin {"idle", "ret", "crashed"}
    /\ \E t \in ProcessStep(Current) :
          /\ pc' = t.pc
          /\ l_io' = t.l_io
          /\ l_buf' = t.l_buf
          /\ l_res' = t.l_res
          /\ mem' = t.mem
          /\ frame_count' = t.frame_count
          /\ buffer_count' = t.buffer_count
    /\ UNCHANGED <<node_vars, last, emitted, halted, inflight_paused>>
    /\ UNCHANGED <<host_n_buffers, factory_vars>>

\* the call in flight returns l_res to the host
ProcessReturn ==
    /\ pc = "ret"
    /\ pc' = "idle"
    /\ l_io' = NULL
    /\ l_buf' = NoBuf
    /\ l_res' = SPA_STATUS_OK
    /\ last' = [op |-> "process", res |-> l_res]
    /\ emitted' = <<>>
    /\ inflight_paused' = FALSE
    /\ UNCHANGED <<node_vars, stat_vars, mem, halted, host_n_buffers, factory_vars>>

(* ------------------------------------------------------------------- host *)

\* the host hands buffer k to the node through area r, between two quanta
HostQueue(r, k) ==
    /\ pc = "idle"
    /\ buffer_count < MaxBufferCount
    /\ mem' = [mem EXCEPT ![r] = k]
    /\ last' = [op |-> "host", res |-> 0]
    /\ UNCHANGED <<node_vars, stat_vars, proc_vars>>
    /\ UNCHANGED <<emitted, halted, inflight_paused, host_n_buffers, factory_vars>>

(* --------------------------------------------------------- specifications *)

Commands == {"Start", "Pause", "Suspend", "Flush"}
ParamIds == {"Format", "Props"}
IoIds == {"Buffers", "RateMatch", "Position"}

AddListener == \E l \in Listeners : impl_node_add_listener(l)

\* set_io calls: each kind with a region of sufficient size, with one a byte
\* short, and with NULL; and a kind the node does not know
SetIoCalls ==
    {<<"Buffers", r, SIZEOF_IO_BUFFERS>> : r \in {NULL} \cup IoRegions}
    \cup {<<"Buffers", "R1", SIZEOF_IO_BUFFERS - 1>>}
    \cup {<<"RateMatch", r, SIZEOF_IO_RATE_MATCH>> : r \in {NULL} \cup RateRegions}
    \cup {<<"RateMatch", "RM", SIZEOF_IO_RATE_MATCH - 1>>}
    \cup {<<"Position", "R1", SIZEOF_IO_BUFFERS>>}

SetIo == \E c \in SetIoCalls : impl_node_set_io(c[1], c[2], c[3])

SendCommand == \E cmd \in Commands : impl_node_send_command(cmd)

\* set_param calls: Format with NULL and with every descriptor, and an id
\* the node does not implement
SetParamCalls ==
    {<<"Format", d>> : d \in {NULL_POD} \cup Descriptors}
    \cup {<<"Props", NULL_POD>>, <<"Props", Desc("audio", "raw", "F32", 2, 48000)>>}

SetParam == \E c \in SetParamCalls : impl_node_set_param(c[1], c[2])

Host == \E r \in IoRegions : \E k \in HostIds(r) : HostQueue(r, k)

\* the control operations that run against a call in flight in SpecRT
SetIoRT ==
    \E data \in {NULL} \cup IoRegions :
       impl_node_set_io("Buffers", data, SIZEOF_IO_BUFFERS)

SetParamRT ==
    \E param \in {NULL_POD,
                  Desc("audio", "raw", "F32", 2, 48000),
                  Desc("audio", "raw", "F32", 65, 48000)} :
       impl_node_set_param("Format", param)

\* every call runs to its return before the next begins
Next ==
    \/ AddListener
    \/ SetIo
    \/ SendCommand
    \/ SetParam
    \/ Host
    \/ impl_node_process

Spec == Init /\ [][Next]_vars

\* process() runs step by step on the real-time context while the control
\* context runs its operations
NextRT ==
    \/ SetIoRT
    \/ SendCommand
    \/ SetParamRT
    \/ Host
    \/ ProcessBegin
    \/ ProcessNext
    \/ ProcessReturn

SpecRT == Init /\ [][NextRT]_vars

\* the commands run against a call in flight; the format, the binding and
\* the buffers of the port change between two calls
SetIoBetweenCalls == pc = "idle" /\ SetIoRT
SetParamBetweenCalls == pc = "idle" /\ SetParamRT

\* use_buffers calls: one or two buffers for the input port, and a call
\* for a port the node does not have
UseBuffersCalls ==
    {<<"Input", 0, 1>>, <<"Input", 0, 2>>, <<"Output", 0, 1>>, <<"Input", 1, 1>>}

UseBuffersBetweenCalls ==
    /\ pc = "idle"
    /\ \E c \in UseBuffersCalls : impl_node_use_buffers(c[1], c[2], c[3])

NextPause ==
    \/ SetIoBetweenCalls
    \/ UseBuffersBetweenCalls
    \/ SetParamBetweenCalls
    \/ SendCommand
    \/ Host
    \/ ProcessBegin
    \/ ProcessNext
    \/ ProcessReturn

\* the real-time context keeps running a call it has begun
SpecPause ==
    /\ Init
    /\ [][NextPause]_vars
    /\ WF_vars(ProcessNext)
    /\ WF_vars(ProcessReturn)

\* the node long in service: its counters start up to MaxWrapCalls calls
\* short of 2^64 calls of 512 frames each, the rest of the state as after
\* a format clear and an unbinding
InitWrap ==
    /\ ZeroedState
    /\ Quiet
    /\ last = [op |-> "init", res |-> 0]
    /\ \E n \in 0..MaxWrapCalls :
          /\ frame_count = -(n * Frames(4096, 2))
          /\ buffer_count = -n

NextWrap ==
    \/ SetIoRT
    \/ SendCommand
    \/ SetParamRT
    \/ Host
    \/ impl_node_process

SpecWrap == InitWrap /\ [][NextWrap]_vars

\* the serialised calls of a node whose host keeps calling process(), once
\* per quantum
SpecLive ==
    /\ Init
    /\ [][NextWrap]_vars
    /\ WF_vars(impl_node_process)

\* the serialised calls of a node that may be cleaned up, by impl_clear,
\* at any point between two of them, any number of times
Clear == null_state_cleanup

NextClear ==
    \/ AddListener
    \/ SetIoRT
    \/ SendCommand
    \/ SetParamRT
    \/ Host
    \/ impl_node_process
    \/ Clear

SpecClear == Init /\ [][NextClear]_vars

\* the host discovers the factories of the plugin
NextFactory ==
    \/ LoopStart
    \/ LoopCall
    \/ ProbeCall
    \/ HostSetsIndex

SpecFactory == Init /\ [][NextFactory]_vars

\* the host configures and binds the node through the port-level
\* operations only, and names ports the node does not have
Ports == {"Input", "Output"} \X {0, 1}

AbsentPorts == Ports \ {<<"Input", 0>>}

SetPortParam ==
    \E p \in AbsentPorts : \E c \in SetParamCalls :
       impl_node_set_port_param(p[1], p[2], c[1], c[2])

SetPortIo ==
    \E p \in AbsentPorts : \E c \in SetIoCalls :
       impl_node_set_port_io(p[1], p[2], c[1], c[2], c[3])

NextPort ==
    \/ AddListener
    \/ SendCommand
    \/ SetPortParam
    \/ SetPortIo

SpecPort == Init /\ [][NextPort]_vars

\* the node is queried and configured from the control context, with up to
\* MaxSubscribers listeners; impl_init has run with any of the support
\* interfaces present or missing, and a handle whose init failed is not used
Subscribers == 1..MaxSubscribers

SupportInterfaces == {"Log", "System", "DataLoop"}

InitQuery ==
    /\ ZeroedState
    /\ ZeroedCounters
    /\ Quiet
    /\ \E support \in SUBSET SupportInterfaces :
          last = [op |-> "init", res |-> ImplInitOutcome(support),
                  support |-> support]

Created == ~(last.op = "init" /\ last.res < 0)

Subscribe == Created /\ \E l \in Subscribers : impl_node_add_listener(l)

SetParamQuery == Created /\ SetParamRT

SendCommandQuery == Created /\ SendCommand

\* enum_params calls: Format from index 0 with room for one and for two,
\* from later indices, with no room, and an id that has no parameters
EnumParamsCalls ==
    {<<7, "Format", 0, 1>>, <<8, "Format", 0, 2>>, <<7, "Format", 1, 1>>,
     <<7, "Format", 2, 4>>, <<7, "Format", 0, 0>>, <<7, "Props", 0, 1>>}

EnumParams ==
    /\ Created
    /\ \E c \in EnumParamsCalls : impl_node_enum_params(c[1], c[2], c[3], c[4])

EnumPortsCalls ==
    {<<9, "Input", 0, 1>>, <<9, "Input", 0, 4>>, <<9, "Input", 1, 1>>,
     <<9, "Input", 0, 0>>, <<9, "Output", 0, 1>>, <<9, "Output", 1, 1>>}

EnumPorts ==
    /\ Created
    /\ \E c \in EnumPortsCalls : impl_node_enum_ports(c[1], c[2], c[3], c[4])

GetPortInfoCalls ==
    {<<"Input", 0>>, <<"Input", 1>>, <<"Output", 0>>, <<"Output", 1>>}

GetPortInfo ==
    /\ Created
    /\ \E c \in GetPortInfoCalls : impl_node_get_port_info(c[1], c[2])

NextQuery ==
    \/ Subscribe
    \/ SetParamQuery
    \/ SendCommandQuery
    \/ EnumParams
    \/ EnumPorts
    \/ GetPortInfo

SpecQuery == InitQuery /\ [][NextQuery]_vars

\* every operation of the control plane, the queries included, serialised
\* with process()
NextPlanes ==
    \/ AddListener
    \/ SetIoRT
    \/ SendCommand
    \/ SetParamRT
    \/ Host
    \/ impl_node_process
    \/ EnumParams
    \/ EnumPorts
    \/ GetPortInfo

SpecPlanes == Init /\ [][NextPlanes]_vars

(* ----------------------------------------------------------------- claims *)

\* the program state outside the format fields and the started flag
rest_vars == <<io, rate_match, frame_count, buffer_count, hooks, mem>>

\* process() is about to consume: started, configured, bound, and the
\* current identifier resolves to a buffer that carries a chunk
Consumable ==
    /\ started
    /\ have_format
    /\ io # NULL
    /\ mem[io] # SPA_ID_INVALID
    /\ mem[io] < MAX_BUFFERS
    /\ Buffers(io, mem[io]).present
    /\ Buffers(io, mem[io]).has_chunk

\* the width in bytes of one sample of an encoding
SampleWidth(fmt) == IF fmt = "S16" THEN 2 ELSE 4

\* C1: a process() call on a started node with an accepted format of C
\* channels and sample width W, whose bound area names a buffer with a chunk
\* of S bytes, adds S / (C*W) to frame_count and 1 to buffer_count, leaves
\* the identifier INVALID and returns Ok.
C1_FramesBySampleWidth ==
    [][(last'.op = "process" /\ Consumable) =>
          /\ frame_count' = frame_count
                + (Buffers(io, mem[io]).size
                     \div (current_format.channels
                             * SampleWidth(current_format.format)))
          /\ buffer_count' = buffer_count + 1
          /\ mem'[io] = SPA_ID_INVALID
          /\ last'.res = SPA_STATUS_OK]_vars

\* C2: process() on a node that is not started, or has no format, or has no
\* buffer-queue binding, or whose current identifier is INVALID returns Ok
\* and changes neither counter nor the buffer-queue areas.
C2_ProcessNoOp ==
    [][(/\ last'.op = "process"
        /\ \/ ~started
           \/ ~have_format
           \/ io = NULL
           \/ mem[io] = SPA_ID_INVALID) =>
          /\ last'.res = SPA_STATUS_OK
          /\ UNCHANGED <<frame_count, buffer_count, mem>>]_vars

\* process() has run on a paused node that holds a format, a binding and a
\* pending buffer, and left the buffer pending
C2_Witness ==
    /\ last.op = "process"
    /\ last.res = SPA_STATUS_OK
    /\ ~started
    /\ have_format
    /\ io # NULL
    /\ mem[io] = 0

\* the descriptors the claim accepts
ClaimAccepts(d) ==
    /\ d.media_type = "audio"
    /\ d.media_subtype = "raw"
    /\ 1 <= d.channels /\ d.channels <= 64
    /\ 1 <= d.rate /\ d.rate <= 192000

C4_ClearStops ==
    [][impl_node_set_param("Format", NULL_POD) =>
          /\ last'.res = 0
          /\ ~have_format'
          /\ ~started']_vars

\* C5: started implies that a format is accepted.
C5_StartedHasFormat == started => have_format

\* C6: send_command(Start) returns success and sets started when a format is
\* accepted; with none it fails with -EIO and changes nothing.
C6_StartNeedsFormat ==
    [][impl_node_send_command("Start") =>
          IF have_format
          THEN last'.res = 0 /\ started'
          ELSE /\ last'.res = -EIO
               /\ UNCHANGED <<have_format, current_format, started>>
               /\ UNCHANGED rest_vars]_vars

\* Start has been refused on a node that is bound and has listeners
C6_Witness ==
    /\ last.op = "Start"
    /\ last.res = -EIO
    /\ ~have_format
    /\ io # NULL
    /\ hooks # <<>>

\* C7: a set_param(Format, d) that fails leaves the format fields, started,
\* both bindings, the counters and the listeners as they were and delivers
\* no event.
C7_FailedSetFormatNoEffect ==
    [][\A d \in Descriptors :
          (last'.res < 0 /\ impl_node_set_param("Format", d)) =>
             /\ UNCHANGED <<have_format, current_format, started>>
             /\ UNCHANGED rest_vars
             /\ emitted' = <<>>]_vars

\* a set_param has failed on a started node with a format and a listener
C7_Witness ==
    /\ last.op = "set_param"
    /\ last.res < 0
    /\ have_format
    /\ started
    /\ io # NULL
    /\ hooks # <<>>

\* C8: whenever a process() call computes frames, the channel count it
\* divides by is that of an accepted format: in 1..64, never the zero of a
\* cleared format.
C8_ChannelsOfAcceptedFormat ==
    [][(pc = "stats" /\ pc' # "stats" /\ l_buf.has_chunk) =>
          (1 <= current_format.channels /\ current_format.channels <= 64)]_vars

\* C9: every step of a process() call that reads or writes a buffer-queue
\* area touches the area that is the node's binding at that step.
C9_TouchesCurrentBinding ==
    [][(pc \in {"check_id", "range", "get_buf", "mark"} /\ pc' # pc) =>
          l_io = io]_vars

\* C10: Pause and Suspend do not preempt.  A call in flight when either
\* executes keeps its position and its locals, its next step has the
\* outcomes it had, it leaves INVALID in the area it read and it returns;
\* and a call that begins after Pause or Suspend and before the next
\* successful Start returns Ok at once, changing no counter and no area.
C10_PauseAtQuantumBoundary ==
    /\ [][(impl_node_send_command("Pause") \/ impl_node_send_command("Suspend"))
             => /\ UNCHANGED <<pc, l_io, l_buf, l_res, mem, stat_vars>>
                /\ pc \notin {"idle", "ret"} =>
                      ProcessStep(Current)' = ProcessStep(Current)]_vars
    /\ [][(pc' = "ret" /\ inflight_paused' /\ l_io' # NULL) =>
             mem'[l_io'] = SPA_ID_INVALID]_vars
    /\ [][(pc = "idle" /\ pc' # "idle" /\ halted) =>
             /\ pc' = "ret"
             /\ l_res' = SPA_STATUS_OK
             /\ UNCHANGED <<mem, stat_vars>>]_vars
    /\ (pc # "idle") ~> (pc = "idle")

\* a call that was past its checks when the node was paused has counted and
\* handed back its buffer
C10_Witness ==
    /\ pc = "ret"
    /\ inflight_paused
    /\ ~started
    /\ l_buf.has_chunk
    /\ buffer_count > 0
    /\ mem[l_io] = SPA_ID_INVALID

\* C11: every field of a buffer-queue area has exactly one writer.  The host
\* writes the identifier field to announce a buffer (HostQueue), so no step
\* of the node writes that field: every step that changes the identifier of
\* an area is a step of the host.
C11_SingleWriterPerField ==
    [][\A r \in IoRegions :
          mem'[r] # mem[r] => last'.op = "host"]_vars

\* the outcomes of a process() call from the current state change nothing:
\* it returns Ok, and the areas and both counters are as they were
ProcessIsNoOp ==
    \A f \in ProcessRun(ProcessStart) :
       /\ f.pc = "ret"
       /\ f.l_res = SPA_STATUS_OK
       /\ f.mem = mem
       /\ f.frame_count = frame_count
       /\ f.buffer_count = buffer_count

\* the process() call that has just returned found a buffer in its area
LastConsumed ==
    /\ pc = "idle"
    /\ last.op = "process"
    /\ last.area # NULL
    /\ last.id < MAX_BUFFERS
    /\ Buffers(last.area, last.id).present

\* C12: after a process() call that consumed a buffer, a second call with
\* nothing in between reads INVALID from the same area, returns Ok and adds
\* nothing to either counter; and with a 2-channel 48000 Hz format of 32-bit
\* samples and a 4096-byte chunk the consuming call adds exactly 512 frames.
C12_SecondCallSeesInvalid ==
    /\ LastConsumed =>
          /\ ProcessIsNoOp
          /\ \A f \in ProcessRun(ProcessStart) :
                f.l_io = last.area /\ mem[f.l_io] = SPA_ID_INVALID
    /\ (/\ pc = "idle"
        /\ Consumable
        /\ current_format = ParsedInfo(Desc("audio", "raw", "F32", 2, 48000))
        /\ Buffers(io, mem[io]).size = 4096) =>
          \A f \in ProcessRun(ProcessStart) :
             /\ f.pc = "ret"
             /\ f.l_res = SPA_STATUS_OK
             /\ f.frame_count = frame_count + 512
             /\ f.buffer_count = buffer_count + 1

\* the first call of the scenario has returned: 512 frames in one buffer,
\* and the area it read holds INVALID for the second call
C12_Witness ==
    /\ LastConsumed
    /\ last.res = SPA_STATUS_OK
    /\ last.id = 0
    /\ current_format = ParsedInfo(Desc("audio", "raw", "F32", 2, 48000))
    /\ Buffers(last.area, 0).size = 4096
    /\ frame_count = 512
    /\ buffer_count = 1
    /\ mem[last.area] = SPA_ID_INVALID

\* the identifier of the bound area is out of range or names no buffer, on
\* a node that would process
Faulty ==
    /\ started
    /\ have_format
    /\ io # NULL
    /\ mem[io] # SPA_ID_INVALID
    /\ \/ mem[io] >= MAX_BUFFERS
       \/ ~Buffers(io, mem[io]).present

\* C13: process() on a started, configured, bound node whose identifier is
\* out of range or names an absent buffer resets the identifier to INVALID,
\* returns Ok and leaves both counters unchanged; the process() call after
\* it changes nothing.
C13_SelfHealing ==
    [][(last'.op = "process" /\ Faulty) =>
          /\ mem'[io] = SPA_ID_INVALID
          /\ last'.res = SPA_STATUS_OK
          /\ UNCHANGED stat_vars
          /\ ProcessIsNoOp']_vars

\* a call has found an identifier out of range and has reset it
C13_Witness ==
    /\ last.op = "process"
    /\ last.res = SPA_STATUS_OK
    /\ last.area # NULL
    /\ last.id # SPA_ID_INVALID
    /\ last.id >= MAX_BUFFERS
    /\ mem[last.area] = SPA_ID_INVALID

\* C14: every process() call returns, and returns Ok, whatever it finds in
\* the bound area.
C14_ProcessReturnsOk ==
    last.op = "process" => (pc = "idle" /\ last.res = SPA_STATUS_OK)

\* a call that found the identifier of a missing buffer has returned Ok
C14_Witness ==
    /\ last.op = "process"
    /\ last.res = SPA_STATUS_OK
    /\ last.area # NULL
    /\ last.id < MAX_BUFFERS
    /\ ~Buffers(last.area, last.id).present

\* C15: process() indexes the buffer array only with an identifier below the
\* number of buffers the port was given: with n buffers given, a call that
\* finds an identifier k >= n resets it to INVALID and returns, and no call
\* reads the array at such a k.
C15_IndexBelowGivenCount ==
    [][(host_n_buffers > 0 /\ pc' # pc) =>
          /\ (pc = "range" /\ mem[l_io] >= host_n_buffers) =>
                (pc' = "ret" /\ mem'[l_io] = SPA_ID_INVALID)
          /\ pc = "get_buf" => mem[l_io] < host_n_buffers]_vars

\* C16: send_command(Pause) and send_command(Suspend) return success from
\* every state, leave started = false and everything else as it was, and
\* either of them applied again returns success and leaves the same state;
\* the format stays accepted, so that Start then succeeds.
C16_PauseSuspendIdempotent ==
    [][\A c \in {"Pause", "Suspend"} :
          (last'.op = c /\ impl_node_send_command(c)) =>
             /\ last'.res = 0
             /\ ~started'
             /\ UNCHANGED <<have_format, current_format>>
             /\ UNCHANGED rest_vars
             /\ \A c2 \in {"Pause", "Suspend"} :
                   CommandOutcome(c2)' = [res |-> 0, started |-> started']
             /\ have_format =>
                   CommandOutcome("Start")' = [res |-> 0, started |-> TRUE]]_vars

\* a node that has processed a buffer has been suspended and keeps its
\* format
C16_Witness ==
    /\ last.op = "Suspend"
    /\ last.res = 0
    /\ ~started
    /\ have_format
    /\ buffer_count > 0

\* C17: a set_param(Format, d) that succeeds on a node that holds a format,
\* started or not, stores d in place of it and leaves started, both
\* bindings, the counters and the areas as they were; the next process()
\* call that consumes a buffer divides by d's channel count.
C17_ReplaceFormat ==
    [][\A d \in WellFormed :
          (/\ last'.op = "set_param"
           /\ last'.res = 0
           /\ have_format
           /\ impl_node_set_param("Format", d)) =>
             /\ have_format'
             /\ current_format' = ParsedInfo(d)
             /\ UNCHANGED started
             /\ UNCHANGED rest_vars
             /\ Consumable' =>
                   \A f \in ProcessRun(ProcessStart)' :
                      /\ f.frame_count = frame_count'
                            + Frames(Buffers(io', mem'[io']).size, d.channels)
                      /\ f.buffer_count = buffer_count' + 1]_vars

\* a started node that counted 512 frames of a 2-channel buffer now holds a
\* 64-channel format
C17_Witness ==
    /\ last.op = "set_param"
    /\ last.res = 0
    /\ started
    /\ have_format
    /\ frame_count = 512
    /\ buffer_count = 1
    /\ current_format.channels = 64

\* C18: every set_param(Format, ...) that succeeds, with a descriptor or
\* with NULL, delivers within the call exactly one param_changed event to
\* each registered listener, and a listener reading the format fields of the
\* node during the event reads the ones the call leaves.
C18_ParamChangedAfterStore ==
    [][(last'.op = "set_param" /\ last'.res = 0) =>
          /\ Len(emitted') = Len(hooks)
          /\ \A i \in 1..Len(hooks) :
                emitted'[i] =
                   [listener |-> hooks[i], event |-> "param_changed",
                    have_format |-> have_format',
                    current_format |-> current_format']]_vars

\* the listener of a started node has been told of a format clear and read
\* the cleared state
C18_Witness ==
    /\ last.op = "set_param"
    /\ last.res = 0
    /\ hooks # <<>>
    /\ Len(emitted) = Len(hooks)
    /\ started
    /\ ~have_format
    /\ ~emitted[1].have_format

\* C19: send_command with a command other than Start, Pause and Suspend,
\* and set_param with an id other than Format, fail with -ENOTSUP, leave the
\* whole node state as it was and deliver no event.
C19_UnsupportedNoEffect ==
    [][(\/ last'.op = "Flush" /\ impl_node_send_command("Flush")
        \/ /\ last'.op = "set_param"
           /\ \E c \in SetParamCalls :
                 c[1] # "Format" /\ impl_node_set_param(c[1], c[2])) =>
          /\ last'.res = -ENOTSUP
          /\ UNCHANGED <<have_format, current_format, started>>
          /\ UNCHANGED rest_vars
          /\ emitted' = <<>>]_vars

\* an unknown command has been refused on a started node with a listener
C19_Witness ==
    /\ last.op = "Flush"
    /\ last.res = -ENOTSUP
    /\ started
    /\ have_format
    /\ hooks # <<>>
    /\ emitted = <<>>

\* C20: set_io for the buffer queue or the rate match returns success; with
\* a size below the layout of its kind it leaves that kind's binding NULL,
\* whatever it was, and with a sufficient size it stores the region given
\* (NULL clears it); the binding of the other kind is not touched.
C20_ShortRegionIsAbsent ==
    [][\A c \in SetIoCalls :
          (/\ last'.op = "set_io"
           /\ c[1] \in {"Buffers", "RateMatch"}
           /\ impl_node_set_io(c[1], c[2], c[3])) =>
             LET need == IF c[1] = "Buffers" THEN SIZEOF_IO_BUFFERS
                         ELSE SIZEOF_IO_RATE_MATCH
                 want == IF c[3] < need THEN NULL ELSE c[2]
             IN /\ last'.res = 0
                /\ IF c[1] = "Buffers"
                   THEN io' = want /\ rate_match' = rate_match
                   ELSE rate_match' = want /\ io' = io]_vars

\* a node that consumed a buffer through its binding has been given a
\* buffer-queue region one byte short and holds no binding
C20_Witness ==
    /\ last.op = "set_io"
    /\ last.res = 0
    /\ last.id = "Buffers"
    /\ last.short
    /\ io = NULL
    /\ buffer_count > 0

\* a set_io call with a kind the node does not know
UnknownKindCall(c) == c[1] \notin {"Buffers", "RateMatch"}

C22_EnumerationRestartable ==
    [][\A c \in EnumParamsCalls :
          (/\ last'.op = "enum_params"
           /\ c[2] = "Format"
           /\ c[4] >= 1
           /\ impl_node_enum_params(c[1], c[2], c[3], c[4])) =>
             /\ last'.res = IF c[3] = 0 THEN 1 ELSE 0
             /\ Len(emitted') = IF c[3] = 0 THEN Len(hooks) ELSE 0
             /\ UNCHANGED <<have_format, current_format, started>>
             /\ UNCHANGED rest_vars]_vars

\* the format has been enumerated from index 0 on a started node with a
\* listener, right after an enumeration
C22_Witness ==
    /\ last.op = "enum_params"
    /\ last.id = "Format"
    /\ last.start = 0
    /\ last.res = 1
    /\ started
    /\ have_format
    /\ Len(emitted) = Len(hooks)
    /\ hooks # <<>>

\* C23: for each descriptor enum_params yields, every registered listener
\* receives within the call one result event with the caller's sequence
\* number and that descriptor; each listener receives as many result events
\* as the call returns, and a call that yields nothing delivers none.
C23_ResultCarriesDescriptor ==
    [][last'.op = "enum_params" =>
          IF last'.res = 1
          THEN /\ Len(emitted') = Len(hooks)
               /\ \A i \in 1..Len(hooks) :
                     /\ emitted'[i].listener = hooks[i]
                     /\ emitted'[i].event = "result"
                     /\ emitted'[i].seq = last'.seq
                     /\ emitted'[i].result.param = EnumFormat
          ELSE emitted' = <<>>]_vars

\* C24: listeners are invoked in the order of their registration: a
\* registration appends to the list and never reorders it, and every event
\* published, param_changed or result, is delivered once to each listener
\* of the list, first registered first.
C24_DeliveryInRegistrationOrder ==
    [][/\ hooks' # hooks =>
             \E l \in Subscribers : hooks' = Append(hooks, l)
       /\ emitted' # <<>> =>
             /\ Len(emitted') = Len(hooks)
             /\ \A i \in 1..Len(hooks) :
                   emitted'[i].listener = hooks[i]]_vars

\* three listeners registered in the order 3, 1, 2 have been told of a
\* format change in that order
C24_Witness ==
    /\ hooks = <<3, 1, 2>>
    /\ last.op = "set_param"
    /\ Len(emitted) = 3
    /\ emitted[1].listener = 3
    /\ emitted[2].listener = 1
    /\ emitted[3].listener = 2
    /\ emitted[1].event = "param_changed"

\* the listeners whose callback fails when it is invoked
FailingListeners == {2}

\* C25: when a listener fails while an event is published, every other
\* registered listener is still invoked and the publishing operation does
\* not return success to its caller.
C25_ListenerFailureSurfaced ==
    [][(/\ emitted' # <<>>
        /\ \E i \in 1..Len(emitted') :
              emitted'[i].listener \in FailingListeners) =>
          /\ \A i \in 1..Len(hooks) :
                \E j \in 1..Len(emitted') : emitted'[j].listener = hooks[i]
          /\ last'.res < 0]_vars

\* the one port of the node
OnlyPort(direction, port_id) == direction = "Input" /\ port_id = 0

C27_NoTimingAdjustment ==
    [][/\ last'.op = "process" =>
             \A r \in RateRegions : mem'[r] = mem[r]
       /\ rate_match' # rate_match =>
             ProcessRun(ProcessStart)' = ProcessRun(ProcessStart)]_vars

\* a call has consumed a buffer and counted it with a rate-match area bound
C27_Witness ==
    /\ last.op = "process"
    /\ last.area # NULL
    /\ last.id = 0
    /\ rate_match = "RM"
    /\ buffer_count > 0
    /\ mem["RM"] = 0

\* C28: no operation blocks on the other context: a process() call in
\* flight, whatever the control context has done since it began, has not
\* stopped short of its return, and its next step (or its return) can be
\* taken without waiting for the control context.
C28_CallInFlightProceeds ==
    pc # "idle" =>
       /\ pc # "crashed"
       /\ ENABLED (ProcessNext \/ ProcessReturn)

\* a < b as 64-bit unsigned values: the integers below 0 stand for the
\* values within reach of 2^64
ULess(a, b) == IF (a < 0) = (b < 0) THEN a < b ELSE b < 0

\* C29: frame_count and buffer_count are monotonic: only process() changes
\* them, and neither ever decreases except by wrapping modulo 2^64, where
\* a value within reach of 2^64 becomes a small one.
C29_CountersMonotonic ==
    [][/\ (frame_count' # frame_count \/ buffer_count' # buffer_count) =>
             last'.op = "process"
       /\ ULess(frame_count', frame_count) =>
             frame_count < 0 /\ frame_count' >= 0
       /\ ULess(buffer_count', buffer_count) =>
             buffer_count < 0 /\ buffer_count' >= 0]_vars

\* a call has counted the buffer that made both counters wrap to 0
C29_Witness ==
    /\ last.op = "process"
    /\ last.area # NULL
    /\ last.id = 0
    /\ frame_count = 0
    /\ buffer_count = 0

\* C30: after a successful impl_init no format is accepted, started is
\* false, both bindings are NULL, both counters are 0 and there is no
\* listener; impl_init fails with -EINVAL when the log or the system
\* interface is missing.
C30_InitialState ==
    last.op = "init" =>
       IF {"Log", "System"} \subseteq last.support
       THEN /\ last.res = 0
            /\ ~have_format
            /\ ~started
            /\ io = NULL
            /\ rate_match = NULL
            /\ frame_count = 0
            /\ buffer_count = 0
            /\ hooks = <<>>
       ELSE last.res = -EINVAL

\* impl_init has failed for want of the system interface
C30_Witness ==
    /\ last.op = "init"
    /\ last.res = -EINVAL
    /\ last.support = {"Log", "DataLoop"}

\* C31: null_state_cleanup, from any state and called any number of times,
\* leaves no listener, started false and no accepted format; a call right
\* after another changes nothing; and a process() call on the state it
\* leaves returns Ok and changes neither a counter nor an area.
C31_CleanupIdempotent ==
    [][last'.op = "cleanup" =>
          /\ hooks' = <<>>
          /\ ~started'
          /\ ~have_format'
          /\ ProcessIsNoOp'
          /\ last.op = "cleanup" =>
                UNCHANGED <<node_vars, stat_vars, mem, proc_vars>>]_vars

\* a node that was configured and bound, with a buffer queued, has been
\* cleaned up
C31_Witness ==
    /\ last.op = "cleanup"
    /\ current_format # ZeroFormat
    /\ io # NULL
    /\ mem[io] = 0
    /\ hooks = <<>>
    /\ ~started

\* C32: spa_handle_factory_enum with valid pointers and *index = 0 returns
\* 1, stores the null sink factory and leaves *index = 1; with *index >= 1
\* it returns 0 and leaves *index and *factory as they were; with a NULL
\* pointer it returns -EINVAL; so the loop from index 0 has registered
\* exactly the one factory when it ends, and it ends at its second call.
C32_FactoryEnumeration ==
    /\ [][last'.op = "factory_enum" =>
             IF last'.factory = NULL \/ last'.index = NULL
             THEN /\ last'.res = -EINVAL
                  /\ UNCHANGED <<f_index, f_factory>>
             ELSE IF f_index = 0
             THEN /\ last'.res = 1
                  /\ f_factory' = "spa_null_sink_factory"
                  /\ f_index' = 1
             ELSE /\ last'.res = 0
                  /\ UNCHANGED <<f_index, f_factory>>]_vars
    /\ [](f_loop = "running" =>
             /\ f_index <= 1
             /\ Len(registered) = f_index)
    /\ [](f_loop = "done" => registered = <<"spa_null_sink_factory">>)
    /\ [][(f_loop = "running" /\ f_index = 1 /\ last'.op = "factory_enum")
             => f_loop' = "done"]_vars

\* the loop from index 0 has ended after registering the factory
C32_Witness ==
    /\ f_loop = "done"
    /\ last.op = "factory_enum"
    /\ last.res = 0
    /\ registered = <<"spa_null_sink_factory">>

\* process() is about to take a buffer that carries no chunk: started,
\* configured, bound, and the identifier resolves to such a buffer
Chunkless ==
    /\ started
    /\ have_format
    /\ io # NULL
    /\ mem[io] # SPA_ID_INVALID
    /\ mem[io] < MAX_BUFFERS
    /\ Buffers(io, mem[io]).present
    /\ ~Buffers(io, mem[io]).has_chunk

\* C33: process() on a started, configured node whose identifier resolves
\* to a buffer without a data chunk leaves frame_count and buffer_count
\* unchanged, sets the identifier to INVALID and returns Ok.
C33_ChunklessUncounted ==
    [][(last'.op = "process" /\ Chunkless) =>
          /\ UNCHANGED <<frame_count, buffer_count>>
          /\ mem'[io] = SPA_ID_INVALID
          /\ \A r \in DOMAIN mem : r # io => mem'[r] = mem[r]
          /\ last'.res = SPA_STATUS_OK]_vars

\* the chunkless buffer 1 of area R1 has been handed back
C33_Witness ==
    /\ last.op = "process"
    /\ last.area = "R1"
    /\ last.id = 1
    /\ started
    /\ have_format
    /\ mem["R1"] = SPA_ID_INVALID
    /\ buffer_count = 0

\* C34: for every direction and port index, whether the node has the port
\* or not, a step is one of port_set_param(direction, port, id, param)
\* exactly when it is one of set_param(id, param), and one of
\* port_set_io(direction, port, id, data, size) exactly when it is one of
\* set_io(id, data, size): same value returned, same effect on the node.
C34_PortOpsForward ==
    [][\A p \in Ports :
          /\ \A c \in SetParamCalls :
                impl_node_set_port_param(p[1], p[2], c[1], c[2])
                   <=> impl_node_set_param(c[1], c[2])
          /\ \A c \in SetIoCalls :
                impl_node_set_port_io(p[1], p[2], c[1], c[2], c[3])
                   <=> impl_node_set_io(c[1], c[2], c[3])]_vars

\* a node that was reached through ports it does not have only is
\* configured, started and bound
C34_Witness ==
    /\ have_format
    /\ started
    /\ io = "R1"
    /\ rate_match = "RM"
    /\ last.op = "set_io"
    /\ last.res = 0

\* C35: in every state of the serialised calls, an accepted format is a
\* validated one (audio/raw, 1..64 channels, a rate in 1..192000), and
\* where no format is accepted, after impl_init or set_param(Format, NULL),
\* the stored format is all-zero.
C35_AcceptedIsValidated ==
    IF have_format
    THEN ClaimAccepts(current_format)
    ELSE current_format = ZeroFormat

\* the format of a node that had been configured and started has been
\* cleared
C35_Witness ==
    /\ ~have_format
    /\ started
    /\ current_format = ZeroFormat
    /\ last.op = "set_param"
    /\ last.res = 0

\* C36: the control plane and the real-time plane write disjoint state: no
\* operation other than process() (set_param, send_command, set_io,
\* add_listener, the enumerations and queries) changes frame_count or
\* buffer_count, and process() changes none of have_format, current_format,
\* started, io and rate_match.
C36_DisjointWrites ==
    [][/\ last'.op # "process" => UNCHANGED <<frame_count, buffer_count>>
       /\ last'.op = "process" =>
             UNCHANGED <<have_format, current_format, started, io,
                         rate_match>>]_vars

\* the format of a node that has counted a buffer has been cleared, and
\* the counters stand
C36_Witness ==
    /\ last.op = "set_param"
    /\ ~have_format
    /\ buffer_count > 0
    /\ frame_count > 0

\* the node stays started, configured and bound to area r
Serving(r) == started /\ have_format /\ io = r

\* C37: while the node stays started, configured and bound to an area and
\* the host keeps calling process(), every identifier the host has written
\* into the area is eventually reset to INVALID; and process() writes no
\* value other than INVALID into an area.
C37_HandBackLive ==
    /\ \A r \in IoRegions : \A k \in HostIds(r) :
          (Serving(r) /\ mem[r] = k)
             ~> (mem[r] = SPA_ID_INVALID \/ ~Serving(r))
    /\ [][\A r \in IoRegions :
             (last'.op = "process" /\ mem'[r] # mem[r]) =>
                mem'[r] = SPA_ID_INVALID]_vars

\* the node, still serving area R2, has handed back the buffer the host
\* queued there
C37_Witness ==
    /\ Serving("R2")
    /\ last.op = "process"
    /\ last.area = "R2"
    /\ last.id = 0
    /\ mem["R2"] = SPA_ID_INVALID

====
